---- MODULE Spec2Model ----
(***************************************************************************)
(* A model of cu_array.h, the header-only dynamic array of c-utils.        *)
(*                                                                         *)
(* The array is the struct cu_array_s {data, item_size, length, capacity}. *)
(* Its buffer is modelled byte by byte: mem is the contents of the one     *)
(* heap block the array owns, a pointer is a block together with a byte    *)
(* offset, and size_t arithmetic is done modulo 2^SizeBits.  A copy that   *)
(* touches a NULL pointer or bytes outside the block is undefined          *)
(* behaviour: the call then either ends the process (crashed) or goes on   *)
(* with the stray write lost and the stray read returning any byte.        *)
(***************************************************************************)
EXTENDS Integers, Sequences, FiniteSets, TLC

(***************************************************************************)
(* Bounds of the model.                                                    *)
(***************************************************************************)
\* width of size_t in bits (the real build has 16, 32 or 64)
SizeBits == 5
\* the build's -DCU_ARRAY_DEFAULT_SIZE (cu_array.h:211 takes it from the
\* build when it is defined; the header's own default is 32u)
CU_ARRAY_DEFAULT_SIZE == 1
\* the largest item_size passed to cu_array_init
MaxItemSize == 2
\* the values a byte of an item takes: 0..MaxByte
MaxByte == 1
\* the largest request, in bytes, that malloc and realloc grant
HeapBytes == 4
\* the largest num_items passed to cu_array_extend
MaxItems == 2
\* the calls that add items are made while the length stays within MaxLen
MaxLen == 4

\* the static swap buffer of the sort holds this many bytes
CU_ARRAY_MAX_ITEM_SIZE == 128

SizeMod == 2 ^ SizeBits
SIZE_MAX == SizeMod - 1
SizeT == 0..SIZE_MAX

\* size_t arithmetic wraps
SzAdd(a, b) == (a + b) % SizeMod
SzSub(a, b) == (a - b + SizeMod) % SizeMod
SzMul(a, b) == (a * b) % SizeMod

(***************************************************************************)
(* Bytes, pointers and the heap.                                           *)
(***************************************************************************)
Bytes == 0..MaxByte
\* the indeterminate byte of memory that was allocated and never written
Junk == -1
\* what a read outside the block is shown as when elements are compared
Wild == -2
AnyByte == Bytes \cup {Junk}

\* a pointer is a heap block and a byte offset into it; block 0 is no block
NULL == [blk |-> 0, off |-> 0]
Blocks == {1, 2}
PtrAdd(p, n) == [blk |-> p.blk, off |-> p.off + n]

Min(x, y) == IF x < y THEN x ELSE y
Max(x, y) == IF x < y THEN y ELSE x

VARIABLES
    data,       \* arr->data: NULL or a pointer to the start of the block
    item_size,  \* arr->item_size
    length,     \* arr->length
    capacity,   \* arr->capacity
    mem,        \* the bytes of the block data points to (<<>> when none)
    heap,       \* the blocks that are allocated and not yet freed
    call,       \* the last API call: its name, arguments and return value
    fault,      \* the invalid memory access the last call made, or "none"
    crashed,    \* the process was ended by an invalid access
    appended,   \* the items appended since cu_array_init, while every other
                \* call since then has failed
    scan,       \* what the last cu_array_qsort did: whether a scan index
                \* left its range, and how deep the recursion went
    cmp,        \* the last cu_compare_int call: the two ints and the result
    \* cu_test.h: the globals of __CU_TEST_INIT and the local of a test case
    g_cu_unit_test_result,
    g_cu_num_tests,
    g_cu_num_tests_passed,
    g_cu_num_checks,
    g_cu_num_checks_passed,
    cu_test_result,
    test_pc,    \* where the test program is: "main", "test" or "ended"
    run_result, \* the value CU_RUN_END returned from main
    cases       \* the test cases so far: how many had a failed check or
                \* require, how many had none, and the same for the case
                \* that is running

arr_vars == <<data, item_size, length, capacity, mem, heap, call, fault, crashed,
              appended, scan>>
test_vars == <<g_cu_unit_test_result, g_cu_num_tests, g_cu_num_tests_passed,
               g_cu_num_checks, g_cu_num_checks_passed, cu_test_result, test_pc,
               run_result, cases>>
vars == <<arr_vars, cmp, test_vars>>

\* the array and its block as one value, the form the functions work on
Cur == [data |-> data, item_size |-> item_size, length |-> length,
        capacity |-> capacity, mem |-> mem, heap |-> heap]

\* the n bytes of m from byte offset off on; bytes outside the block read
\* as Wild
Rd(m, off, n) ==
    [k \in 1..n |-> IF off + k - 1 >= 0 /\ off + k - 1 < Len(m)
                    THEN m[off + k] ELSE Wild]

\* m with bytes bs stored from byte offset off on; bytes that fall outside
\* the block are not part of m
Wr(m, off, bs) ==
    [k \in 1..Len(m) |-> IF k - 1 >= off /\ k - 1 < off + Len(bs)
                         THEN bs[k - off] ELSE m[k]]

\* a copy of n bytes through pointer p stays inside the block of array a
InBlock(p, n, a) ==
    p.blk = a.data.blk /\ p.blk \in a.heap /\ p.off >= 0 /\ p.off + n <= Len(a.mem)

\* the kind of invalid access a copy of n bytes from src to dst makes
\* (a copy of no bytes touches nothing)
CopyFault(dst, src, n, a) ==
    IF n = 0 THEN "none"
    ELSE IF dst = NULL \/ src = NULL THEN "null"
    ELSE IF ~InBlock(dst, n, a) \/ ~InBlock(src, n, a) THEN "oob"
    ELSE "none"

\* the first invalid access of two copies made one after the other
FirstFault(f1, f2) == IF f1 # "none" THEN f1 ELSE f2

\* a read of out-of-block bytes that went on: they are all the byte w
Stray(bs, w) == [k \in 1..Len(bs) |-> IF bs[k] = Wild THEN w ELSE bs[k]]

\* memmove(dst, src, n) inside the block (overlap-safe: the source bytes
\* are read before any is written).  A NULL dst loses the write; a NULL or
\* out-of-block source reads the byte w.
cu_memmove(m, dst, src, n, w) ==
    LET bs == IF src = NULL THEN [k \in 1..n |-> w] ELSE Stray(Rd(m, src.off, n), w)
    IN  IF dst = NULL \/ n = 0 THEN m ELSE Wr(m, dst.off, bs)

\* memcpy(dst, item, n) of the caller's bytes into the block
cu_memcpy(m, dst, bs) ==
    IF dst = NULL \/ Len(bs) = 0 THEN m ELSE Wr(m, dst.off, bs)

\* the logical contents of array a: the item_size bytes of each element at
\* [0, length)
ElemsOf(a) == [i \in 1..a.length |-> Rd(a.mem, a.item_size * (i - 1), a.item_size)]
Elems == ElemsOf(Cur)

\* an item of isz bytes owned by the caller
Items(isz) == [1..isz -> Bytes]

Initialized == data # NULL /\ capacity # 0

\* malloc(size) and realloc(p, size) grant a request of at most HeapBytes
\* (a request of 0 bytes is never made by an array whose item_size is not 0)
Grantable(size) == size > 0 /\ size <= HeapBytes

\* the block realloc(p, size) returns holds the old bytes up to the smaller
\* of the two sizes and indeterminate bytes after them
Realloced(m, size) ==
    [k \in 1..size |-> IF k <= Len(m) THEN m[k] ELSE Junk]

\* what a function leaves: its return value, the array, and the invalid
\* access it made, if any
Out(ret, a, f) == [ret |-> ret, a |-> a, fault |-> f]

\* cu_realloc(arr->data, size) and the two assignments after it: NULL (the
\* array is left alone and 1 is returned), or a block of size bytes, at the
\* old address or at a new one
Reallocate(a, size, new_capacity) ==
    {Out(1, a, "none")} \cup
    IF Grantable(size)
    THEN {Out(0, [a EXCEPT !.data = [blk |-> b, off |-> 0],
                           !.capacity = new_capacity,
                           !.mem = Realloced(a.mem, size),
                           !.heap = (a.heap \ {a.data.blk}) \cup {b}], "none") :
          b \in Blocks \ (a.heap \ {a.data.blk})}
    ELSE {}

\* a growth policy that adds one item's room
GrowthRate_PlusOne(cap) == SzAdd(cap, 1)

\* the new capacity under CU_GROWTH_RATE_SPACE, the default policy
GrowthRate(cap) == SzMul(cap, 2)

(***************************************************************************)
(* __cu_array_grow                                                         *)
(***************************************************************************)
cu_array_grow(a) ==
    IF a.data = NULL \/ a.capacity = 0 THEN {Out(1, a, "none")}
    ELSE LET new_capacity == GrowthRate(a.capacity) IN
         IF new_capacity <= a.length THEN {Out(1, a, "none")}
         ELSE Reallocate(a, SzMul(a.item_size, new_capacity), new_capacity)

(***************************************************************************)
(* cu_array_init.  np names the pointer argument passed as NULL, if any.   *)
(***************************************************************************)
\* cu_array_init without the check that the array holds no buffer
InitRejects_Never(a) == FALSE

InitRejects(a) == a.data # NULL \/ a.capacity # 0

cu_array_init(a, isz, np) ==
    IF np = "arr" \/ InitRejects(a) THEN {Out(1, a, "none")}
    ELSE LET size == SzMul(isz, CU_ARRAY_DEFAULT_SIZE)
             \* *arr = (cu_array_t){0}; arr->item_size = item_size;
             z == [a EXCEPT !.data = NULL, !.item_size = isz, !.length = 0,
                            !.capacity = 0, !.mem = <<>>]
         IN  \* malloc returned NULL
             {Out(1, z, "none")} \cup
             IF Grantable(size) /\ Blocks \ a.heap # {}
             THEN LET b == CHOOSE x \in Blocks \ a.heap : \A y \in Blocks \ a.heap : x <= y
                  IN  {Out(0, [z EXCEPT !.data = [blk |-> b, off |-> 0],
                                        !.capacity = CU_ARRAY_DEFAULT_SIZE,
                                        !.mem = [k \in 1..size |-> Junk],
                                        !.heap = a.heap \cup {b}], "none")}
             ELSE {}

(***************************************************************************)
(* cu_array_deinit                                                         *)
(***************************************************************************)
DeinitRejects(a) == a.data = NULL \/ a.capacity = 0

\* cu_array_deinit that frees the buffer and clears only data and capacity
cu_array_deinit_KeepsFields(a, np) ==
    IF np = "arr" \/ DeinitRejects(a) THEN {Out(1, a, "none")}
    ELSE {Out(0, [a EXCEPT !.data = NULL, !.capacity = 0,
                           !.mem = <<>>, !.heap = a.heap \ {a.data.blk}],
              IF a.data.blk \in a.heap THEN "none" ELSE "double_free")}

cu_array_deinit(a, np) ==
    IF np = "arr" \/ DeinitRejects(a) THEN {Out(1, a, "none")}
    ELSE \* cu_free(arr->data); *arr = (cu_array_t){0};
         {Out(0, [a EXCEPT !.data = NULL, !.item_size = 0, !.length = 0, !.capacity = 0,
                           !.mem = <<>>, !.heap = a.heap \ {a.data.blk}],
              IF a.data.blk \in a.heap THEN "none" ELSE "double_free")}

\* cu_array_at with pos > length for pos >= length
cu_array_at_OffByOne(a, pos) ==
    IF a.data = NULL \/ a.capacity = 0 \/ pos > a.length
    THEN NULL
    ELSE PtrAdd(a.data, SzMul(a.item_size, pos))

(***************************************************************************)
(* cu_array_at: NULL, or the pointer arr->data + arr->item_size * pos      *)
(***************************************************************************)
cu_array_at(a, pos) ==
    IF a.data = NULL \/ a.capacity = 0 \/ pos >= a.length
    THEN NULL
    ELSE PtrAdd(a.data, SzMul(a.item_size, pos))

\* cu_array_reserve that returns success without reallocating
cu_array_reserve_NoRealloc(a, new_capacity, np) ==
    IF np = "arr" \/ a.data = NULL \/ a.capacity = 0 THEN {Out(1, a, "none")}
    ELSE {Out(0, a, "none")}

(***************************************************************************)
(* cu_array_reserve                                                        *)
(***************************************************************************)
cu_array_reserve(a, new_capacity, np) ==
    IF np = "arr" \/ a.data = NULL \/ a.capacity = 0 THEN {Out(1, a, "none")}
    ELSE IF a.capacity >= new_capacity THEN {Out(0, a, "none")}
    ELSE Reallocate(a, SzMul(a.item_size, new_capacity), new_capacity)

\* cu_array_append that copies to data + length, the item size left out
cu_array_append_NoItemSize(a, item, np) ==
    IF np # "none" \/ a.data = NULL \/ a.capacity = 0 THEN {Out(1, a, "none")}
    ELSE UNION {
        IF g.ret # 0 THEN {Out(g.ret, g.a, "none")}
        ELSE LET dst == PtrAdd(g.a.data, g.a.length)
             IN  {Out(0, [g.a EXCEPT !.mem = cu_memcpy(g.a.mem, dst, item),
                                     !.length = SzAdd(g.a.length, 1)],
                      CopyFault(dst, dst, g.a.item_size, g.a))}
        : g \in (IF a.length >= a.capacity THEN cu_array_grow(a) ELSE {Out(0, a, "none")}) }

(***************************************************************************)
(* cu_array_append                                                         *)
(***************************************************************************)
cu_array_append(a, item, np) ==
    IF np # "none" \/ a.data = NULL \/ a.capacity = 0 THEN {Out(1, a, "none")}
    ELSE UNION {
        IF g.ret # 0 THEN {Out(g.ret, g.a, "none")}
        ELSE LET dst == PtrAdd(g.a.data, SzMul(g.a.item_size, g.a.length))
             IN  {Out(0, [g.a EXCEPT !.mem = cu_memcpy(g.a.mem, dst, item),
                                     !.length = SzAdd(g.a.length, 1)],
                      CopyFault(dst, dst, g.a.item_size, g.a))}
        : g \in (IF a.length >= a.capacity THEN cu_array_grow(a) ELSE {Out(0, a, "none")}) }

\* cu_array_extend that copies item_size bytes, not num_items * item_size
cu_array_extend_OneItem(a, items, num_items, np) ==
    IF np # "none" \/ a.data = NULL \/ a.capacity = 0 THEN {Out(1, a, "none")}
    ELSE UNION {
        IF g.ret # 0 THEN {Out(1, g.a, "none")}
        ELSE LET dst == PtrAdd(g.a.data, SzMul(g.a.item_size, g.a.length))
                 n   == Min(g.a.item_size, Len(items))
             IN  {Out(0, [g.a EXCEPT !.mem = cu_memcpy(g.a.mem, dst, SubSeq(items, 1, n)),
                                     !.length = SzAdd(g.a.length, num_items)],
                      CopyFault(dst, dst, n, g.a))}
        : g \in cu_array_reserve(a, SzAdd(a.length, num_items), "none") }

(***************************************************************************)
(* cu_array_extend                                                         *)
(***************************************************************************)
cu_array_extend(a, items, num_items, np) ==
    IF np # "none" \/ a.data = NULL \/ a.capacity = 0 THEN {Out(1, a, "none")}
    ELSE UNION {
        IF g.ret # 0 THEN {Out(1, g.a, "none")}
        ELSE LET dst == PtrAdd(g.a.data, SzMul(g.a.item_size, g.a.length))
                 n   == SzMul(num_items, g.a.item_size)
             IN  {Out(0, [g.a EXCEPT !.mem = cu_memcpy(g.a.mem, dst, items),
                                     !.length = SzAdd(g.a.length, num_items)],
                      CopyFault(dst, dst, n, g.a))}
        : g \in cu_array_reserve(a, SzAdd(a.length, num_items), "none") }

(***************************************************************************)
(* cu_array_insert                                                         *)
(***************************************************************************)
cu_array_insert(a, item, pos, np) ==
    IF np # "none" \/ a.data = NULL \/ a.capacity = 0 \/ pos > a.length
    THEN {Out(1, a, "none")}
    ELSE UNION {
        IF g.ret # 0 THEN {Out(g.ret, g.a, "none")}
        ELSE LET to   == cu_array_at(g.a, SzAdd(pos, 1))
                 from == cu_array_at(g.a, pos)
                 n    == SzMul(SzSub(g.a.length, pos), g.a.item_size)
                 f1   == CopyFault(to, from, n, g.a)
             IN  { LET m1 == cu_memmove(g.a.mem, to, from, n, w)
                       f2 == CopyFault(from, from, g.a.item_size, g.a)
                   IN  Out(0, [g.a EXCEPT !.mem = cu_memcpy(m1, from, item),
                                          !.length = SzAdd(g.a.length, 1)],
                           FirstFault(f1, f2))
                   : w \in (IF f1 = "none" THEN {Junk} ELSE AnyByte) }
        : g \in (IF a.length >= a.capacity THEN cu_array_grow(a) ELSE {Out(0, a, "none")}) }

(***************************************************************************)
(* cu_array_remove_at                                                      *)
(***************************************************************************)
cu_array_remove_at(a, pos, np) ==
    IF np # "none" \/ a.data = NULL \/ a.capacity = 0 \/ pos >= a.length
    THEN {Out(1, a, "none")}
    ELSE LET to   == cu_array_at(a, pos)
             from == cu_array_at(a, SzAdd(pos, 1))
             n    == SzMul(SzSub(a.length, pos), a.item_size)
             f    == CopyFault(to, from, n, a)
         IN  { Out(0, [a EXCEPT !.mem = cu_memmove(a.mem, to, from, n, w),
                                !.length = SzSub(a.length, 1)], f)
               : w \in (IF f = "none" THEN {Junk} ELSE AnyByte) }

(***************************************************************************)
(* cu_array_clear                                                          *)
(***************************************************************************)
cu_array_clear(a, np) ==
    IF np = "arr" THEN {Out(1, a, "none")}
    ELSE {Out(0, [a EXCEPT !.length = 0], "none")}

(***************************************************************************)
(* The comparators handed to cu_array_qsort.  Each reads the item as a     *)
(* little-endian unsigned number and returns the difference, the way       *)
(* cu_compare_int does for int items: 1 sorts ascending, -1 descending.    *)
(***************************************************************************)
Comparators == {1, -1}

RECURSIVE ItemValue(_)
ItemValue(bs) == IF bs = <<>> THEN 0 ELSE Head(bs) + 256 * ItemValue(Tail(bs))

compare(c, a, b) == c * (ItemValue(a) - ItemValue(b))

(***************************************************************************)
(* cu_compare_int: the difference of the two ints pointed to.  One that   *)
(* does not fit an int is a signed overflow, which is undefined: the build *)
(* may wrap it, or give any other int.                                     *)
(***************************************************************************)
\* width of int in bits (the real build has 16 or 32)
IntBits == 4
INT_MAX == 2 ^ (IntBits - 1) - 1
INT_MIN == -(2 ^ (IntBits - 1))
IntT == INT_MIN..INT_MAX

cu_compare_int(a, b) == IF a - b \in IntT THEN {a - b} ELSE IntT

\* data + item_size * i, for a pointer data at byte offset base of the block:
\* the product is size_t arithmetic and the address wraps with it
SortAddr(base, isz, i) == (base + SzMul(isz, i)) % SizeMod

\* index i of a range of len items lies outside it (as size_t: a j stepped
\* below 0 is SIZE_MAX)
OutOfRange(i, len) == i >= len

\* the first scan with <= 0 for < 0: it runs past items equal to the pivot
RECURSIVE ScanUp_PastEqual(_, _, _, _, _, _, _, _)
ScanUp_PastEqual(m, base, isz, len, pivot, i, c, out) ==
    LET at == SortAddr(base, isz, i) IN
    IF at + isz > Len(m) \/ pivot + isz > Len(m)
    THEN [i |-> i, out |-> TRUE, fault |-> "oob"]
    ELSE IF compare(c, Rd(m, at, isz), Rd(m, pivot, isz)) <= 0
         THEN ScanUp_PastEqual(m, base, isz, len, pivot, SzAdd(i, 1), c,
                               out \/ OutOfRange(i, len))
         ELSE [i |-> i, out |-> out \/ OutOfRange(i, len), fault |-> "none"]

\* while (compare(data + item_size * i, pivot) < 0) i++;
\* the result is the i the loop stops at, and whether a read left the range
\* [0, len) or the block
RECURSIVE ScanUp(_, _, _, _, _, _, _, _)
ScanUp(m, base, isz, len, pivot, i, c, out) ==
    LET at == SortAddr(base, isz, i) IN
    IF at + isz > Len(m) \/ pivot + isz > Len(m)
    THEN [i |-> i, out |-> TRUE, fault |-> "oob"]
    ELSE IF compare(c, Rd(m, at, isz), Rd(m, pivot, isz)) < 0
         THEN ScanUp(m, base, isz, len, pivot, SzAdd(i, 1), c, out \/ OutOfRange(i, len))
         ELSE [i |-> i, out |-> out \/ OutOfRange(i, len), fault |-> "none"]

\* while (compare(pivot, data + item_size * j) < 0) j--;
RECURSIVE ScanDown(_, _, _, _, _, _, _, _)
ScanDown(m, base, isz, len, pivot, j, c, out) ==
    LET at == SortAddr(base, isz, j) IN
    IF at + isz > Len(m) \/ pivot + isz > Len(m)
    THEN [i |-> j, out |-> TRUE, fault |-> "oob"]
    ELSE IF compare(c, Rd(m, pivot, isz), Rd(m, at, isz)) < 0
         THEN ScanDown(m, base, isz, len, pivot, SzSub(j, 1), c, out \/ OutOfRange(j, len))
         ELSE [i |-> j, out |-> out \/ OutOfRange(j, len), fault |-> "none"]

\* a swap without the swap_buffer: item j is copied over item i and then
\* copied back to itself
SwapItems_Overwrite(m, isz, a, b) == Wr(m, a, Rd(m, b, isz))

\* the three cu_memcpy calls through the static swap_buffer
SwapItems(m, isz, a, b) == Wr(Wr(m, a, Rd(m, b, isz)), b, Rd(m, a, isz))

\* for (i = 0, j = len - 1;; i++, j--) { scan up; scan down;
\*     if (i >= j) break; swap }, entered with the given i and j; pivot is
\* the address of the middle item, read anew at every comparison
RECURSIVE Partition(_, _, _, _, _, _, _, _, _)
Partition(m, base, isz, len, pivot, i, j, c, out) ==
    LET up   == ScanUp(m, base, isz, len, pivot, i, c, out)
        down == ScanDown(m, base, isz, len, pivot, j, c, up.out)
    IN  IF up.fault # "none" THEN [m |-> m, i |-> up.i, out |-> TRUE, fault |-> up.fault]
        ELSE IF down.fault # "none" THEN [m |-> m, i |-> up.i, out |-> TRUE, fault |-> down.fault]
        ELSE IF up.i >= down.i THEN [m |-> m, i |-> up.i, out |-> down.out, fault |-> "none"]
        ELSE IF isz > CU_ARRAY_MAX_ITEM_SIZE
             THEN [m |-> m, i |-> up.i, out |-> down.out, fault |-> "swap_buffer"]
        ELSE Partition(SwapItems(m, isz, SortAddr(base, isz, up.i), SortAddr(base, isz, down.i)),
                       base, isz, len, pivot, SzAdd(up.i, 1), SzSub(down.i, 1), c, down.out)

(***************************************************************************)
(* __cu_array_qsort_internal on the len items from byte offset base on.    *)
(* The result: the block's bytes, whether a scan index left its range,     *)
(* the depth of the recursion, and the invalid access made, if any.  A     *)
(* partition that ends with i = 0 or i >= len would recurse on a range     *)
(* that is not shorter, without end: that is the fault "recursion".        *)
(***************************************************************************)
RECURSIVE cu_array_qsort_internal(_, _, _, _, _)
cu_array_qsort_internal(m, base, isz, len, c) ==
    IF len < 2 THEN [m |-> m, out |-> FALSE, depth |-> 1, fault |-> "none"]
    ELSE LET pivot == base + isz * (len \div 2)
             p     == Partition(m, base, isz, len, pivot, 0, len - 1, c, FALSE)
         IN  IF p.fault # "none"
             THEN [m |-> p.m, out |-> p.out, depth |-> 1, fault |-> p.fault]
             ELSE IF p.i = 0 \/ p.i >= len
             THEN [m |-> p.m, out |-> p.out, depth |-> 1, fault |-> "recursion"]
             ELSE LET lo == cu_array_qsort_internal(p.m, base, isz, p.i, c)
                      hi == cu_array_qsort_internal(lo.m, base + isz * p.i, isz, len - p.i, c)
                  IN  IF lo.fault # "none"
                      THEN [m |-> lo.m, out |-> p.out \/ lo.out, depth |-> 1 + lo.depth,
                            fault |-> lo.fault]
                      ELSE [m |-> hi.m, out |-> p.out \/ lo.out \/ hi.out,
                            depth |-> 1 + Max(lo.depth, hi.depth), fault |-> hi.fault]

(***************************************************************************)
(* cu_array_qsort                                                          *)
(***************************************************************************)
\* (with what the scans did: out and depth, 0 when nothing was sorted)
cu_array_qsort(a, c, np) ==
    IF np = "arr" \/ a.data = NULL \/ a.capacity = 0
    THEN {[ret |-> 1, a |-> a, fault |-> "none", out |-> FALSE, depth |-> 0]}
    ELSE LET r == cu_array_qsort_internal(a.mem, 0, a.item_size, a.length, c)
         IN  {[ret |-> 0, a |-> [a EXCEPT !.mem = r.m], fault |-> r.fault,
               out |-> r.out, depth |-> r.depth]}

(***************************************************************************)
(* The state after `cu_array_t arr = {0};`                                 *)
(***************************************************************************)
NoCall == [op |-> "none", ret |-> 0, null |-> "none", arg |-> 0, bytes |-> <<>>]
NotAppending == [ok |-> FALSE, items |-> <<>>]

NoScan == [out |-> FALSE, depth |-> 0]
NoCompare == [a |-> 0, b |-> 0, ret |-> 0, done |-> FALSE]
NoCases == [clean |-> 0, failed |-> 0, failing |-> FALSE, checks |-> 0]

\* __CU_TEST_INIT: the globals of the test program before main runs
TestInit ==
    /\ g_cu_unit_test_result = 0
    /\ g_cu_num_tests = 0
    /\ g_cu_num_tests_passed = 0
    /\ g_cu_num_checks = 0
    /\ g_cu_num_checks_passed = 0
    /\ cu_test_result = 0
    /\ test_pc = "main"
    /\ run_result = 0
    /\ cases = NoCases

\* no call has been made yet
NoCalls ==
    /\ call = NoCall
    /\ fault = "none"
    /\ crashed = FALSE
    /\ appended = NotAppending
    /\ scan = NoScan

Init ==
    /\ data = NULL
    /\ item_size = 0
    /\ length = 0
    /\ capacity = 0
    /\ mem = <<>>
    /\ heap = {}
    /\ NoCalls
    /\ cmp = NoCompare
    /\ TestInit

\* the items appended since the array was initialized, after the call op
\* returned ret
Appended(op, ret, bytes) ==
    IF ret # 0 THEN appended
    ELSE IF op = "init" THEN [ok |-> TRUE, items |-> <<>>]
    ELSE IF op = "append" /\ appended.ok
         THEN [ok |-> TRUE, items |-> Append(appended.items, bytes)]
    ELSE NotAppending

\* One API call with outcome o.  arg is its size_t argument (item_size, pos,
\* new_capacity, num_items) or its comparator, bytes the bytes of its
\* item(s), np its NULL pointer argument.  A call that made an invalid
\* access either was ended there with the process, or went on to return.
Do(op, np, arg, bytes, o) ==
    \/ /\ o.fault # "none"
       /\ call' = [op |-> op, ret |-> -1, null |-> np, arg |-> arg, bytes |-> bytes]
       /\ fault' = o.fault
       /\ crashed' = TRUE
       /\ scan' = (IF op = "qsort" THEN [out |-> o.out, depth |-> o.depth] ELSE NoScan)
       /\ UNCHANGED <<data, item_size, length, capacity, mem, heap, appended>>
       /\ UNCHANGED <<cmp, test_vars>>
    \/ /\ data' = o.a.data
       /\ item_size' = o.a.item_size
       /\ length' = o.a.length
       /\ capacity' = o.a.capacity
       /\ mem' = o.a.mem
       /\ heap' = o.a.heap
       /\ call' = [op |-> op, ret |-> o.ret, null |-> np, arg |-> arg,
                   bytes |-> IF o.ret = 0 THEN bytes ELSE <<>>]
       /\ fault' = o.fault
       /\ appended' = Appended(op, o.ret, bytes)
       /\ scan' = (IF op = "qsort" THEN [out |-> o.out, depth |-> o.depth] ELSE NoScan)
       /\ UNCHANGED crashed
       /\ UNCHANGED <<cmp, test_vars>>

\* the calls that add items are made while the length stays within MaxLen,
\* or as the first call on an array that is given
MayAdd == length < MaxLen \/ call = NoCall

\* the new_capacity values passed to cu_array_reserve: none, one more than
\* there is, and one so large that item_size * new_capacity can wrap
ReserveArgs == {0, SzAdd(capacity, 1), SizeMod \div 2 + 1}

(***************************************************************************)
(* The client's calls.                                                     *)
(***************************************************************************)
Init_call ==
    /\ ~crashed
    /\ \/ \E o \in cu_array_init(Cur, 1, "arr") : Do("init", "arr", 0, <<>>, o)
       \/ \E isz \in 1..MaxItemSize : \E o \in cu_array_init(Cur, isz, "none") :
            Do("init", "none", IF InitRejects(Cur) THEN 0 ELSE isz, <<>>, o)

Deinit_call ==
    /\ ~crashed
    /\ \E np \in {"none", "arr"} : \E o \in cu_array_deinit(Cur, np) :
         Do("deinit", np, 0, <<>>, o)

Append_call ==
    /\ ~crashed
    /\ \/ \E np \in {"arr", "item"} : \E o \in cu_array_append(Cur, <<>>, np) :
            Do("append", np, 0, <<>>, o)
       \/ /\ MayAdd
          /\ \E item \in Items(item_size) : \E o \in cu_array_append(Cur, item, "none") :
               Do("append", "none", 0, item, o)

Extend_call ==
    /\ ~crashed
    /\ \/ \E np \in {"arr", "items"} : \E o \in cu_array_extend(Cur, <<>>, 0, np) :
            Do("extend", np, 0, <<>>, o)
       \/ \E num_items \in 0..(IF call = NoCall THEN MaxItems ELSE Min(MaxItems, MaxLen - length)) :
          LET zeros == [k \in 1..(num_items * item_size) |-> 0]
              \* the bytes of items matter only to a call that copies them
              copies == \E o \in cu_array_extend(Cur, zeros, num_items, "none") : o.ret = 0
          IN  \E items \in (IF copies THEN [1..(num_items * item_size) -> Bytes] ELSE {zeros}) :
              \E o \in cu_array_extend(Cur, items, num_items, "none") :
                 Do("extend", "none", num_items, items, o)

Insert_call ==
    /\ ~crashed
    /\ \/ \E np \in {"arr", "item"} : \E o \in cu_array_insert(Cur, <<>>, 0, np) :
            Do("insert", np, 0, <<>>, o)
       \/ \E pos \in {SzAdd(length, 1), SIZE_MAX} :
          \E o \in cu_array_insert(Cur, [k \in 1..item_size |-> 0], pos, "none") :
            Do("insert", "none", pos, <<>>, o)
       \/ /\ MayAdd
          /\ \E pos \in 0..length, item \in Items(item_size) :
             \E o \in cu_array_insert(Cur, item, pos, "none") :
               Do("insert", "none", pos, item, o)

Reserve_call ==
    /\ ~crashed
    /\ \/ \E o \in cu_array_reserve(Cur, 0, "arr") : Do("reserve", "arr", 0, <<>>, o)
       \/ \E new_capacity \in ReserveArgs :
          \E o \in cu_array_reserve(Cur, new_capacity, "none") :
            Do("reserve", "none", new_capacity, <<>>, o)

RemoveAt_call ==
    /\ ~crashed
    /\ \/ \E o \in cu_array_remove_at(Cur, 0, "arr") : Do("remove_at", "arr", 0, <<>>, o)
       \/ \E pos \in 0..length \cup {SIZE_MAX} :
          \E o \in cu_array_remove_at(Cur, pos, "none") :
            Do("remove_at", "none", pos, <<>>, o)

Clear_call ==
    /\ ~crashed
    /\ \E np \in {"none", "arr"} : \E o \in cu_array_clear(Cur, np) :
         Do("clear", np, 0, <<>>, o)

Qsort_call ==
    /\ ~crashed
    /\ \/ \E o \in cu_array_qsort(Cur, 1, "arr") : Do("qsort", "arr", 0, <<>>, o)
       \/ \E c \in Comparators : \E o \in cu_array_qsort(Cur, c, "none") :
            Do("qsort", "none", IF o.ret = 0 THEN c ELSE 0, <<>>, o)

\* a call of cu_compare_int on the two ints given
Compare_call ==
    /\ ~cmp.done
    /\ \E r \in cu_compare_int(cmp.a, cmp.b) :
         cmp' = [cmp EXCEPT !.ret = r, !.done = TRUE]
    /\ UNCHANGED <<arr_vars, test_vars>>

Next ==
    \/ Init_call
    \/ Deinit_call
    \/ Append_call
    \/ Extend_call
    \/ Insert_call
    \/ Reserve_call
    \/ RemoveAt_call
    \/ Clear_call
    \/ Qsort_call

Spec == Init /\ [][Next]_vars

(***************************************************************************)
(* The sort on its own: the array is any array a cu_array_init followed by *)
(* one cu_array_extend leaves (capacity the default or, above it, the      *)
(* length reserved), with item bytes 0..SortMaxByte, and it is sorted.     *)
(***************************************************************************)
SortMaxByte == 3

SortInit ==
    /\ item_size \in 1..MaxItemSize
    /\ length \in 0..MaxLen
    /\ capacity = Max(CU_ARRAY_DEFAULT_SIZE, length)
    /\ Grantable(item_size * capacity)
    /\ data = [blk |-> 1, off |-> 0]
    /\ heap = {1}
    /\ mem \in [1..(item_size * capacity) -> 0..SortMaxByte]
    /\ \A k \in 1..(item_size * capacity) : k > item_size * length => mem[k] = 0
    /\ NoCalls
    /\ cmp = NoCompare
    /\ TestInit

SortNext == call.op = "none" /\ Qsort_call

SpecSort == SortInit /\ [][SortNext]_vars

(***************************************************************************)
(* Growth on its own: the array is any initialized array whose buffer of   *)
(* item_size * capacity bytes fits the address space, holding zero bytes,  *)
(* and one call is made on it.                                             *)
(***************************************************************************)
GrowInit ==
    /\ item_size \in 1..MaxItemSize
    /\ capacity \in 1..SIZE_MAX
    /\ item_size * capacity <= SIZE_MAX
    /\ length \in {0, capacity - 1, capacity}
    /\ data = [blk |-> 1, off |-> 0]
    /\ heap = {1}
    /\ mem = [k \in 1..(item_size * capacity) |-> 0]
    /\ NoCalls
    /\ cmp = NoCompare
    /\ TestInit

GrowNext ==
    /\ call = NoCall
    /\ \/ Append_call
       \/ Insert_call
       \/ Extend_call
       \/ Reserve_call
       \/ RemoveAt_call
       \/ Clear_call
       \/ Qsort_call

SpecGrow == GrowInit /\ [][GrowNext]_vars

(***************************************************************************)
(* cu_test.h: a test program is CU_RUN_TESTS { test cases; CU_RUN_END }    *)
(* and a test case is a function CU_TEST_START, checks and requires,       *)
(* CU_TEST_END.  main does not look at what a test case returns.           *)
(***************************************************************************)
\* the test cases of a program
MaxTests == 3
\* the checks and requires of a test case
MaxChecks == 2

CU_TEST_START ==
    /\ test_pc = "main"
    /\ g_cu_num_tests < MaxTests
    /\ cu_test_result' = 0
    /\ g_cu_num_tests' = SzAdd(g_cu_num_tests, 1)
    /\ test_pc' = "test"
    /\ cases' = [cases EXCEPT !.failing = FALSE, !.checks = 0]
    /\ UNCHANGED <<g_cu_unit_test_result, g_cu_num_tests_passed, g_cu_num_checks,
                   g_cu_num_checks_passed, run_result>>
    /\ UNCHANGED <<arr_vars, cmp>>

CU_TEST_CHECK ==
    /\ test_pc = "test"
    /\ cases.checks < MaxChecks
    /\ g_cu_num_checks' = SzAdd(g_cu_num_checks, 1)
    /\ \E condition \in BOOLEAN :
         /\ IF condition
            THEN /\ g_cu_num_checks_passed' = SzAdd(g_cu_num_checks_passed, 1)
                 /\ UNCHANGED cu_test_result
            ELSE /\ cu_test_result' = 1
                 /\ UNCHANGED g_cu_num_checks_passed
         /\ cases' = [cases EXCEPT !.failing = @ \/ ~condition, !.checks = @ + 1]
    /\ UNCHANGED <<g_cu_unit_test_result, g_cu_num_tests, g_cu_num_tests_passed,
                   test_pc, run_result>>
    /\ UNCHANGED <<arr_vars, cmp>>

CU_TEST_REQUIRE ==
    /\ test_pc = "test"
    /\ cases.checks < MaxChecks
    /\ g_cu_num_checks' = SzAdd(g_cu_num_checks, 1)
    /\ \E cond \in BOOLEAN :
         IF ~cond
         THEN \* __cu_test_result = 1; return __cu_test_result;
              /\ cu_test_result' = 1
              /\ test_pc' = "main"
              /\ cases' = [cases EXCEPT !.failed = @ + 1, !.failing = FALSE, !.checks = 0]
              /\ UNCHANGED g_cu_num_checks_passed
         ELSE /\ g_cu_num_checks_passed' = SzAdd(g_cu_num_checks_passed, 1)
              /\ cases' = [cases EXCEPT !.checks = @ + 1]
              /\ UNCHANGED <<cu_test_result, test_pc>>
    /\ UNCHANGED <<g_cu_unit_test_result, g_cu_num_tests, g_cu_num_tests_passed,
                   run_result>>
    /\ UNCHANGED <<arr_vars, cmp>>

CU_TEST_END ==
    /\ test_pc = "test"
    /\ IF cu_test_result = 0
       THEN /\ g_cu_num_tests_passed' = SzAdd(g_cu_num_tests_passed, 1)
            /\ UNCHANGED g_cu_unit_test_result
       ELSE /\ g_cu_unit_test_result' = 1
            /\ UNCHANGED g_cu_num_tests_passed
    /\ test_pc' = "main"
    /\ cases' = [clean   |-> IF cases.failing THEN cases.clean ELSE cases.clean + 1,
                 failed  |-> IF cases.failing THEN cases.failed + 1 ELSE cases.failed,
                 failing |-> FALSE, checks |-> 0]
    /\ UNCHANGED <<g_cu_num_tests, g_cu_num_checks, g_cu_num_checks_passed,
                   cu_test_result, run_result>>
    /\ UNCHANGED <<arr_vars, cmp>>

CU_RUN_END ==
    /\ test_pc = "main"
    /\ run_result' = g_cu_unit_test_result
    /\ test_pc' = "ended"
    /\ UNCHANGED <<g_cu_unit_test_result, g_cu_num_tests, g_cu_num_tests_passed,
                   g_cu_num_checks, g_cu_num_checks_passed, cu_test_result, cases>>
    /\ UNCHANGED <<arr_vars, cmp>>

TestNext ==
    \/ CU_TEST_START
    \/ CU_TEST_CHECK
    \/ CU_TEST_REQUIRE
    \/ CU_TEST_END
    \/ CU_RUN_END

SpecTest == Init /\ [][TestNext]_vars

(***************************************************************************)
(* cu_compare_int on its own: the two ints are any two, and it is called.  *)
(***************************************************************************)
CompareInit ==
    /\ data = NULL
    /\ item_size = 0
    /\ length = 0
    /\ capacity = 0
    /\ mem = <<>>
    /\ heap = {}
    /\ NoCalls
    /\ cmp \in [a : IntT, b : IntT, ret : {0}, done : {FALSE}]
    /\ TestInit

SpecCompare == CompareInit /\ [][Compare_call]_vars

(***************************************************************************)
(* The claims.                                                             *)
(***************************************************************************)
\* a call of op that ran to its end and returned success
Returned(op) == call.op = op /\ call.ret = 0 /\ ~crashed

\* the step is a call of op with no NULL argument
Calls(op) == call'.op = op /\ call'.null = "none"

\* the array and its block are what they were before the step
Untouched == UNCHANGED <<data, item_size, length, capacity, mem, heap>>

\* sequence s with v put in at 0-based position p, and with position p
\* taken out
InsertAt(s, p, v) ==
    [i \in 1..(Len(s) + 1) |-> IF i <= p THEN s[i] ELSE IF i = p + 1 THEN v ELSE s[i - 1]]
RemoveAt(s, p) ==
    [i \in 1..(Len(s) - 1) |-> IF i <= p THEN s[i] ELSE s[i + 1]]

\* C1: after cu_array_qsort returns, compare(At(i), At(i+1)) <= 0 holds for
\* every i with i+1 < length, for every array and total-order comparator.
C1_SortOrders ==
    Returned("qsort") =>
        \A i \in 1..(length - 1) : compare(call.arg, Elems[i], Elems[i + 1]) <= 0

\* C2: on an initialized array of length n, cu_array_insert(v, p) with
\* 0 <= p <= n succeeds (unless the growth it needs fails, which leaves the
\* array alone) and yields length n+1 with v at p, [0,p) unchanged and the
\* old [p,n) at [p+1,n+1).
C2_InsertShifts ==
    [][ (Calls("insert") /\ Initialized /\ call'.arg <= length) =>
           \/ /\ call'.ret = 0 /\ ~crashed'
              /\ length' = length + 1
              /\ Elems' = InsertAt(Elems, call'.arg, call'.bytes)
           \/ /\ call'.ret = 1 /\ length >= capacity /\ Untouched ]_vars

\* C3: on an initialized array of length n >= 1, cu_array_remove_at(p) with
\* 0 <= p < n succeeds and yields length n-1 with [0,p) unchanged and the
\* old [p+1,n) at [p,n-1).
C3_RemoveShifts ==
    [][ (Calls("remove_at") /\ Initialized /\ call'.arg < length) =>
           /\ call'.ret = 0 /\ ~crashed'
           /\ length' = length - 1
           /\ Elems' = RemoveAt(Elems, call'.arg) ]_vars

\* C4: a call that returns failure leaves the buffer reference, item_size,
\* length, capacity and the stored bytes exactly as they were.
C4_FailedCallsDoNotMutate ==
    [][ call'.ret = 1 => Untouched ]_vars

\* C5: after N successful appends to a freshly initialized array the length
\* is N (one more at each append) and At(i) is the i-th appended item, byte
\* for byte, for all i < N.
C5_AppendMonotonic ==
    appended.ok =>
        /\ length = Len(appended.items)
        /\ \A i \in 0..(Len(appended.items) - 1) :
             /\ cu_array_at(Cur, i) # NULL
             /\ Rd(mem, cu_array_at(Cur, i).off, item_size) = appended.items[i + 1]

\* the arrays that k successful cu_array_append calls of the items in bs
\* (k * item_size bytes), in order, can leave from array a
RECURSIVE AppendAll(_, _, _)
AppendAll(a, bs, k) ==
    IF k = 0 THEN {a}
    ELSE UNION { AppendAll(o.a, SubSeq(bs, a.item_size + 1, Len(bs)), k - 1)
                 : o \in { x \in cu_array_append(a, SubSeq(bs, 1, a.item_size), "none") :
                           x.ret = 0 } }

\* C6: a successful cu_array_extend of k items leaves the length and the
\* elements that k successful cu_array_append calls of the same items, in
\* order, leave from the same state (k = 0 leaves them as they were).
C6_ExtendEquivalence ==
    [][ (Calls("extend") /\ call'.ret = 0 /\ ~crashed') =>
           /\ \A b \in AppendAll(Cur, call'.bytes, call'.arg) :
                length' = b.length /\ Elems' = ElemsOf(b)
           /\ call'.arg = 0 => (length' = length /\ Elems' = Elems) ]_vars

\* C7: in every reachable state 0 <= length <= capacity.
C7_LengthWithinCapacity == 0 <= length /\ length <= capacity

\* C8: cu_array_init succeeds only on an array that holds no buffer and
\* cu_array_deinit only on one that holds a buffer; the array's buffer is
\* the only live block (none is overwritten and leaked) and no block is
\* released twice.
C8_InitDeinitAlternate ==
    /\ [](heap = IF data = NULL THEN {} ELSE {data.blk})
    /\ [](fault # "double_free")
    /\ [][ /\ (call'.op = "init" /\ call'.ret = 0) => (data = NULL /\ data' # NULL)
           /\ (call'.op = "deinit" /\ call'.ret = 0) => (data # NULL /\ data' = NULL)
           /\ (Calls("init") /\ data # NULL) => (call'.ret = 1 /\ Untouched)
           /\ (Calls("deinit") /\ data = NULL) => (call'.ret = 1 /\ Untouched) ]_vars

\* C9: cu_array_at(index) is not NULL iff the array is initialized and
\* index < length, and is then the pointer to byte offset item_size * index
\* of the buffer; for every index >= length it is NULL.
C9_AtExposesLogicalElements ==
    \A index \in SizeT :
        LET p == cu_array_at(Cur, index) IN
        /\ (p # NULL) <=> (Initialized /\ index < length)
        /\ p # NULL => p = [blk |-> data.blk, off |-> item_size * index]
        /\ index >= length => p = NULL

\* C10: cu_array_reserve(new_capacity) with new_capacity <= capacity returns
\* success and changes nothing; with new_capacity > capacity and a granted
\* reallocation it sets capacity to exactly new_capacity; either way length
\* and the elements at [0,length) are unchanged and capacity does not
\* decrease.
C10_ReserveIsFloor ==
    [][ (Calls("reserve") /\ Initialized) =>
           /\ call'.arg <= capacity => (call'.ret = 0 /\ Untouched)
           /\ (call'.arg > capacity /\ call'.ret = 0) => capacity' = call'.arg
           /\ length' = length
           /\ Elems' = Elems
           /\ capacity' >= capacity ]_vars

\* C11: between a successful cu_array_init and the next cu_array_deinit the
\* capacity never decreases; cu_array_append and cu_array_insert change it
\* only when length == capacity at the call, and then to exactly twice the
\* old capacity; when capacity * 2 wraps so that it does not exceed length
\* the call returns failure and the array is left alone.
C11_GrowthPolicy ==
    [][ Initialized =>
          /\ ~(call'.op = "deinit" /\ call'.ret = 0) => capacity' >= capacity
          /\ call'.op \in {"append", "insert"} =>
                /\ capacity' # capacity =>
                      (length = capacity /\ capacity' = 2 * capacity)
                /\ (call'.null = "none" /\ length >= capacity
                      /\ SzMul(capacity, 2) <= length) =>
                      (call'.ret = 1 /\ Untouched) ]_vars

\* how many times item v occurs in sequence s, and whether t holds the items
\* of s, each as many times
Count(s, v) == Cardinality({i \in 1..Len(s) : s[i] = v})
SameItems(s, t) ==
    /\ Len(s) = Len(t)
    /\ \A i \in 1..Len(s) : Count(s, s[i]) = Count(t, s[i])

C13_InitDeinitRoundTrip ==
    [][ /\ (call'.op = "init" /\ call'.ret = 0) =>
              /\ capacity' = CU_ARRAY_DEFAULT_SIZE
              /\ length' = 0
              /\ item_size' = call'.arg
              /\ data' # NULL
              /\ Len(mem') = item_size' * CU_ARRAY_DEFAULT_SIZE
        /\ (call'.op = "deinit" /\ call'.ret = 0) =>
              /\ Initialized
              /\ data' = NULL
              /\ item_size' = 0 /\ length' = 0 /\ capacity' = 0 ]_vars

\* C14: the result of cu_compare_int(a, b) is < 0 iff a < b, 0 iff a == b
\* and > 0 iff a > b, for every pair of ints a, b.
C14_CompareIntContract ==
    cmp.done =>
        /\ cmp.ret < 0 <=> cmp.a < cmp.b
        /\ cmp.ret = 0 <=> cmp.a = cmp.b
        /\ cmp.ret > 0 <=> cmp.a > cmp.b

\* C15: no call copies through a NULL element pointer, and none reads or
\* writes bytes outside the buffer.
C15_AccessesInBounds == fault \notin {"null", "oob"}

\* C16: in a cu_array_qsort of an array of length n the scan indices i and j
\* stay within the range being partitioned, every partition ends with
\* 0 < i < len, and the recursion is at most n calls deep (one call for
\* n < 2).
C16_SortScansInRange ==
    (call.op = "qsort" /\ call.null = "none" /\ Initialized) =>
        /\ call.ret = 0 /\ fault = "none"
        /\ ~scan.out
        /\ scan.depth <= Max(length, 1)

\* C17: the value CU_RUN_END returns is 1 iff a check or a require failed
\* in some test case, and the count of passed tests is the number of test
\* cases in which none failed.
C17_HarnessVerdict ==
    test_pc = "ended" =>
        /\ run_result = 1 <=> cases.failed > 0
        /\ g_cu_num_tests_passed = cases.clean

(***************************************************************************)
(* States in which the claims' cases have happened.                        *)
(***************************************************************************)
\* three different items were appended across two growths of the default
\* capacity
C5_Witness ==
    /\ appended.ok /\ Returned("append")
    /\ Len(appended.items) >= 3
    /\ capacity >= 4 * CU_ARRAY_DEFAULT_SIZE
    /\ appended.items[1] # appended.items[2]

\* two different items were added by one cu_array_extend to an array that
\* held one, which two appends could have grown as well
C6_Witness ==
    /\ Returned("extend") /\ call.arg = 2 /\ length = 3 /\ item_size = 1
    /\ call.bytes[1] # call.bytes[2]

\* an append filled an array that has grown
C7_Witness ==
    Returned("append") /\ length = capacity /\ capacity > CU_ARRAY_DEFAULT_SIZE

\* a second cu_array_init on an array that holds items was rejected
C8_Witness ==
    /\ call.op = "init" /\ call.ret = 1 /\ call.null = "none"
    /\ Initialized /\ length > 0

\* cu_array_clear left written bytes in the buffer, and cu_array_at gives
\* NULL for their index
C9_Witness ==
    /\ Returned("clear") /\ Initialized /\ length = 0
    /\ mem[1] \in Bytes
    /\ cu_array_at(Cur, 0) = NULL

\* an append to a full array whose doubled capacity wraps was rejected
C11_Witness ==
    /\ call.op = "append" /\ call.ret = 1 /\ call.null = "none"
    /\ Initialized /\ length = capacity /\ 2 * capacity >= SizeMod

C13_Witness ==
    /\ Returned("deinit") /\ call.null = "none"
    /\ data = NULL /\ heap = {} /\ capacity = 0

\* a sort of four items went four calls deep
C16_Witness ==
    Returned("qsort") /\ length = 4 /\ scan.depth = 4
====
